---- MODULE Spec2Model ----
(***************************************************************************)
(* Model of the SilentKingdoms contract: a registry of players with        *)
(* encrypted gold / lastBuilding and the oblivious construction update.    *)
(* Encrypted 32-bit integers are modelled by the plaintext they decrypt    *)
(* to; the FHE operations are modelled by what they compute on that        *)
(* plaintext (32-bit wrapping arithmetic, select, comparisons).  A 32-bit  *)
(* word is kept as two 16-bit limbs [hi, lo], so that the full unsigned    *)
(* range and the wrap of FHE.sub are represented exactly.                  *)
(***************************************************************************)
EXTENDS Integers, Sequences, FiniteSets, TLC

(* ---------------------------- bounds ----------------------------------- *)
NumPlayers == 2
MaxId == 5
MaxEvents == 4
MaxPairEvents == 4
MaxReadEvents == 3
MaxSwapEvents == 4
MaxResolveLo == 40
MaxSoloEvents == 12
MaxAppEvents == 3

(* ------------------------- program constants --------------------------- *)
STARTING_GOLD == 1000
\* mutant: the cheapest building costs half as much
BARRACKS_COST_Half == 100 \div 2

BARRACKS_COST == 100
FARM_COST == 200
FACTORY_COST == 300
WALL_COST == 400

Limb == 2 ^ 16

Identities == 1 .. NumPlayers

VARIABLES players, acl, events, last, twin, app

vars == <<players, acl, events, last, twin, app>>

(* ------------------- encrypted arithmetic capability ------------------- *)
\* trivial encryption of a plaintext constant (all constants are < 2^31)
asEuint32(v) == [hi |-> (v \div Limb) % Limb, lo |-> v % Limb]

\* mutant: only the low 16 bits are compared
FHE_eq_LowLimb(a, b) == a.lo = b.lo

\* mutant: the test is greater-or-equal in place of equality
FHE_eq_AtLeast(a, b) == a.hi > b.hi \/ (a.hi = b.hi /\ a.lo >= b.lo)

FHE_eq(a, b) == a.hi = b.hi /\ a.lo = b.lo

\* mutant: every comparison succeeds
FHE_ge_Always(a, b) == TRUE

\* mutant: strict comparison
FHE_ge_Strict(a, b) == a.hi > b.hi \/ (a.hi = b.hi /\ a.lo > b.lo)

FHE_ge(a, b) == a.hi > b.hi \/ (a.hi = b.hi /\ a.lo >= b.lo)

\* mutant: the second operand is ignored
FHE_and_First(a, b) == a

FHE_and(a, b) == a /\ b

\* mutant: the disjunction is always true
FHE_or_True(a, b) == TRUE

FHE_or(a, b) == a \/ b

FHE_select(c, a, b) == IF c THEN a ELSE b

\* mutant: addition modulo 2^32 in place of subtraction
FHE_sub_Adds(a, b) ==
    LET carry == IF a.lo + b.lo >= Limb THEN 1 ELSE 0
    IN  [hi |-> (a.hi + b.hi + carry) % Limb,
         lo |-> (a.lo + b.lo) % Limb]

\* unchecked subtraction modulo 2^32
FHE_sub(a, b) ==
    LET borrow == IF a.lo < b.lo THEN 1 ELSE 0
    IN  [hi |-> (a.hi - b.hi - borrow + 2 * Limb) % Limb,
         lo |-> (a.lo - b.lo + Limb) % Limb]

MaxUint32 == [hi |-> Limb - 1, lo |-> Limb - 1]

\* the plaintexts a caller may encrypt as the requested building id
RequestedIds == {asEuint32(i) : i \in 0 .. MaxId} \cup {MaxUint32}

\* a validated external input is the ciphertext the caller encrypted
fromExternal(encryptedBuildingId) == encryptedBuildingId

(* ----------------------------- data model ------------------------------ *)
\* value of a mapping slot that was never written
PlayerData ==
    [gold |-> asEuint32(0), lastBuilding |-> asEuint32(0), registered |-> FALSE]

\* decryption rights on one stored ciphertext: whether the contract itself
\* holds them (allowThis) and the accounts that hold them (allow)
Grant(self, accounts) == [contract |-> self, accounts |-> accounts]

NoGrants == [gold |-> Grant(FALSE, {}), lastBuilding |-> Grant(FALSE, {})]

PlayerJoined(p) == [name |-> "PlayerJoined", player |-> p]

\* mutant: an attempt is logged under the name of the join notification
BuildingAttempted_AsJoin(p) == [name |-> "PlayerJoined", player |-> p]

BuildingAttempted(p) == [name |-> "BuildingAttempted", player |-> p]

\* mutant: two prices are listed in each other's place
getBuildingPrices_Swapped == <<BARRACKS_COST, FACTORY_COST, FARM_COST, WALL_COST>>

getBuildingPrices == <<BARRACKS_COST, FARM_COST, FACTORY_COST, WALL_COST>>

(* --------------------------- private helpers --------------------------- *)
\* mutant: every id is reported as a known building
resolveBuildingCost_AllValid(buildingId) ==
    LET c1 == FHE_select(FHE_eq(buildingId, asEuint32(1)), asEuint32(BARRACKS_COST), asEuint32(0))
        c2 == FHE_select(FHE_eq(buildingId, asEuint32(2)), asEuint32(FARM_COST), c1)
        c3 == FHE_select(FHE_eq(buildingId, asEuint32(3)), asEuint32(FACTORY_COST), c2)
        c4 == FHE_select(FHE_eq(buildingId, asEuint32(4)), asEuint32(WALL_COST), c3)
    IN  [cost |-> c4, isValid |-> TRUE]

resolveBuildingCost(buildingId) ==
    LET isBarracks == FHE_eq(buildingId, asEuint32(1))
        isFarm     == FHE_eq(buildingId, asEuint32(2))
        isFactory  == FHE_eq(buildingId, asEuint32(3))
        isWall     == FHE_eq(buildingId, asEuint32(4))
        c0 == asEuint32(0)
        c1 == FHE_select(isBarracks, asEuint32(BARRACKS_COST), c0)
        c2 == FHE_select(isFarm, asEuint32(FARM_COST), c1)
        c3 == FHE_select(isFactory, asEuint32(FACTORY_COST), c2)
        c4 == FHE_select(isWall, asEuint32(WALL_COST), c3)
        validPair == FHE_or(FHE_or(isBarracks, isFarm), FHE_or(isFactory, isWall))
    IN  [cost |-> c4, isValid |-> validPair]

\* mutant: the two ciphertexts are stored in each other's field
storePlayerCiphertexts_Swapped(player, goldCipher, buildingCipher, playerAddress) ==
    [data   |-> [player EXCEPT !.gold = buildingCipher, !.lastBuilding = goldCipher],
     grants |-> [gold         |-> Grant(TRUE, {playerAddress}),
                 lastBuilding |-> Grant(TRUE, {playerAddress})]]

\* mutant: allowThis is forgotten for the building ciphertext
storePlayerCiphertexts_NoAllowThis(player, goldCipher, buildingCipher, playerAddress) ==
    [data   |-> [player EXCEPT !.gold = goldCipher, !.lastBuilding = buildingCipher],
     grants |-> [gold         |-> Grant(TRUE, {playerAddress}),
                 lastBuilding |-> Grant(FALSE, {playerAddress})]]

\* the record and the grants of one player after both ciphertexts are stored
storePlayerCiphertexts(player, goldCipher, buildingCipher, playerAddress) ==
    [data   |-> [player EXCEPT !.gold = goldCipher, !.lastBuilding = buildingCipher],
     grants |-> [gold         |-> Grant(TRUE, {playerAddress}),
                 lastBuilding |-> Grant(TRUE, {playerAddress})]]

(* ------------------------------ handlers ------------------------------- *)
\* mutant: a rejected attempt clears the recorded building
construction_ClearsOnReject(currentGold, currentBuilding, buildingId) ==
    LET resolved    == resolveBuildingCost(buildingId)
        shouldApply == FHE_and(resolved.isValid, FHE_ge(currentGold, resolved.cost))
        appliedCost == FHE_select(shouldApply, resolved.cost, asEuint32(0))
    IN  [gold |-> FHE_sub(currentGold, appliedCost),
         lastBuilding |-> FHE_select(shouldApply, buildingId, asEuint32(0)),
         shouldApply |-> shouldApply]

\* mutant: the requested id is recorded without the select on shouldApply
construction_AlwaysRecords(currentGold, currentBuilding, buildingId) ==
    LET resolved    == resolveBuildingCost(buildingId)
        shouldApply == FHE_and(resolved.isValid, FHE_ge(currentGold, resolved.cost))
        appliedCost == FHE_select(shouldApply, resolved.cost, asEuint32(0))
    IN  [gold |-> FHE_sub(currentGold, appliedCost), lastBuilding |-> buildingId,
         shouldApply |-> shouldApply]

\* A registry is a record [players, acl, events]; each handler maps a
\* registry and its inputs to the outcome and the registry after the call.
\* the oblivious update of constructBuilding: every branch is computed and
\* one is selected
construction(currentGold, currentBuilding, buildingId) ==
    LET resolved        == resolveBuildingCost(buildingId)
        buildingCost    == resolved.cost
        isKnownBuilding == resolved.isValid
        canAfford       == FHE_ge(currentGold, buildingCost)
        shouldApply     == FHE_and(isKnownBuilding, canAfford)
        zeroValue       == asEuint32(0)
        appliedCost     == FHE_select(shouldApply, buildingCost, zeroValue)
        updatedGold     == FHE_sub(currentGold, appliedCost)
        updatedBuilding == FHE_select(shouldApply, buildingId, currentBuilding)
    IN  [gold |-> updatedGold, lastBuilding |-> updatedBuilding,
         shouldApply |-> shouldApply]

\* mutant: the record is written to every slot of the mapping
stored_AllSlots(reg, sender, st, ev) ==
    [players |-> [p \in DOMAIN reg.players |-> st.data],
     acl     |-> [reg.acl EXCEPT ![sender] = st.grants],
     events  |-> Append(reg.events, ev)]

\* the registry after the sender's record is overwritten and ev is emitted
stored(reg, sender, st, ev) ==
    [players |-> [reg.players EXCEPT ![sender] = st.data],
     acl     |-> [reg.acl EXCEPT ![sender] = st.grants],
     events  |-> Append(reg.events, ev)]

\* mutant: the registration check of joinGame is missing
joinGameStep_NoCheck(reg, sender) ==
    LET player == reg.players[sender]
        marked == [player EXCEPT !.registered = TRUE]
        st == storePlayerCiphertexts(marked, asEuint32(STARTING_GOLD), asEuint32(0), sender)
    IN  [outcome |-> "ok", reg |-> stored(reg, sender, st, PlayerJoined(sender))]

\* mutant: the notification is emitted before the registration check
joinGameStep_EmitsFirst(reg, sender) ==
    LET player == reg.players[sender]
        logged == [reg EXCEPT !.events = Append(reg.events, PlayerJoined(sender))]
    IN  IF player.registered
        THEN [outcome |-> "AlreadyRegistered", reg |-> logged]
        ELSE LET marked == [player EXCEPT !.registered = TRUE]
                 st == storePlayerCiphertexts(marked, asEuint32(STARTING_GOLD),
                                              asEuint32(0), sender)
             IN  [outcome |-> "ok",
                  reg |-> stored(reg, sender, st, PlayerJoined(sender))]

joinGameStep(reg, sender) ==
    LET player == reg.players[sender]
    IN  IF player.registered
        THEN [outcome |-> "AlreadyRegistered", reg |-> reg]
        ELSE LET startingGold    == asEuint32(STARTING_GOLD)
                 initialBuilding == asEuint32(0)
                 marked == [player EXCEPT !.registered = TRUE]
                 st == storePlayerCiphertexts(marked, startingGold, initialBuilding, sender)
             IN  [outcome |-> "ok",
                  reg |-> stored(reg, sender, st, PlayerJoined(sender))]

\* mutant: the proof is validated before the registration check
constructBuildingStep_ProofFirst(reg, sender, requestedId, proofValid) ==
    LET player == reg.players[sender]
    IN  IF ~proofValid
        THEN [outcome |-> "InvalidProof", reg |-> reg]
        ELSE IF ~player.registered
        THEN [outcome |-> "NotRegistered", reg |-> reg]
        ELSE LET upd == construction(player.gold, player.lastBuilding,
                                     fromExternal(requestedId))
                 st == storePlayerCiphertexts(player, upd.gold, upd.lastBuilding, sender)
             IN  [outcome |-> "ok",
                  reg |-> stored(reg, sender, st, BuildingAttempted(sender))]

\* mutant: the gold read at the start of the call is stored back
constructBuildingStep_KeepsGold(reg, sender, requestedId, proofValid) ==
    LET player == reg.players[sender]
    IN  IF ~player.registered
        THEN [outcome |-> "NotRegistered", reg |-> reg]
        ELSE IF ~proofValid
        THEN [outcome |-> "InvalidProof", reg |-> reg]
        ELSE LET upd == construction(player.gold, player.lastBuilding,
                                     fromExternal(requestedId))
                 st == storePlayerCiphertexts(player, player.gold, upd.lastBuilding, sender)
             IN  [outcome |-> "ok",
                  reg |-> stored(reg, sender, st, BuildingAttempted(sender))]

\* mutant: the registration check of constructBuilding is missing
constructBuildingStep_NoCheck(reg, sender, requestedId, proofValid) ==
    LET player == reg.players[sender]
    IN  IF ~proofValid
        THEN [outcome |-> "InvalidProof", reg |-> reg]
        ELSE LET upd == construction(player.gold, player.lastBuilding,
                                     fromExternal(requestedId))
                 st == storePlayerCiphertexts(player, upd.gold, upd.lastBuilding, sender)
             IN  [outcome |-> "ok",
                  reg |-> stored(reg, sender, st, BuildingAttempted(sender))]

\* mutant: an attempt that is not applied is reported as a failure
constructBuildingStep_Reverts(reg, sender, requestedId, proofValid) ==
    LET player == reg.players[sender]
    IN  IF ~player.registered
        THEN [outcome |-> "NotRegistered", reg |-> reg]
        ELSE IF ~proofValid
        THEN [outcome |-> "InvalidProof", reg |-> reg]
        ELSE LET upd == construction(player.gold, player.lastBuilding,
                                     fromExternal(requestedId))
                 st == storePlayerCiphertexts(player, upd.gold, upd.lastBuilding, sender)
             IN  IF ~upd.shouldApply
                 THEN [outcome |-> "NotApplied", reg |-> reg]
                 ELSE [outcome |-> "ok",
                       reg |-> stored(reg, sender, st, BuildingAttempted(sender))]

\* mutant: the notification is emitted only for an applied attempt
constructBuildingStep_EmitIfApplied(reg, sender, requestedId, proofValid) ==
    LET player == reg.players[sender]
    IN  IF ~player.registered
        THEN [outcome |-> "NotRegistered", reg |-> reg]
        ELSE IF ~proofValid
        THEN [outcome |-> "InvalidProof", reg |-> reg]
        ELSE LET upd == construction(player.gold, player.lastBuilding,
                                     fromExternal(requestedId))
                 st == storePlayerCiphertexts(player, upd.gold, upd.lastBuilding, sender)
                 after == stored(reg, sender, st, BuildingAttempted(sender))
             IN  [outcome |-> "ok",
                  reg |-> IF upd.shouldApply THEN after
                          ELSE [after EXCEPT !.events = reg.events]]

\* mutant: the record is rebuilt without its registered flag
constructBuildingStep_Unregisters(reg, sender, requestedId, proofValid) ==
    LET player == reg.players[sender]
    IN  IF ~player.registered
        THEN [outcome |-> "NotRegistered", reg |-> reg]
        ELSE IF ~proofValid
        THEN [outcome |-> "InvalidProof", reg |-> reg]
        ELSE LET upd == construction(player.gold, player.lastBuilding,
                                     fromExternal(requestedId))
                 st == storePlayerCiphertexts(PlayerData, upd.gold,
                                              upd.lastBuilding, sender)
             IN  [outcome |-> "ok",
                  reg |-> stored(reg, sender, st, BuildingAttempted(sender))]

constructBuildingStep(reg, sender, requestedId, proofValid) ==
    LET player == reg.players[sender]
    IN  IF ~player.registered
        THEN [outcome |-> "NotRegistered", reg |-> reg]
        ELSE IF ~proofValid
        THEN [outcome |-> "InvalidProof", reg |-> reg]
        ELSE LET currentGold     == player.gold
                 currentBuilding == player.lastBuilding
                 buildingId      == fromExternal(requestedId)
                 upd == construction(currentGold, currentBuilding, buildingId)
                 st == storePlayerCiphertexts(player, upd.gold, upd.lastBuilding, sender)
             IN  [outcome |-> "ok",
                  reg |-> stored(reg, sender, st, BuildingAttempted(sender))]

(* ------------------------------ view calls ----------------------------- *)
\* Each view function maps the registry and its argument to its outcome,
\* the value it returns and the registry after the call.
Reverted == << >>

\* mutant: the getter also lets every account decrypt the balance
getPlayerGold_Allows(reg, playerAddress) ==
    LET player == reg.players[playerAddress]
    IN  IF ~player.registered
        THEN [outcome |-> "NotRegistered", result |-> Reverted, reg |-> reg]
        ELSE [outcome |-> "ok", result |-> player.gold,
              reg |-> [reg EXCEPT !.acl[playerAddress].gold =
                                      Grant(TRUE, DOMAIN reg.players)]]

getPlayerGold(reg, playerAddress) ==
    LET player == reg.players[playerAddress]
    IN  IF ~player.registered
        THEN [outcome |-> "NotRegistered", result |-> Reverted, reg |-> reg]
        ELSE [outcome |-> "ok", result |-> player.gold, reg |-> reg]

\* mutant: the getter returns the gold field
getPlayerLastBuilding_Gold(reg, playerAddress) ==
    LET player == reg.players[playerAddress]
    IN  IF ~player.registered
        THEN [outcome |-> "NotRegistered", result |-> Reverted, reg |-> reg]
        ELSE [outcome |-> "ok", result |-> player.gold, reg |-> reg]

getPlayerLastBuilding(reg, playerAddress) ==
    LET player == reg.players[playerAddress]
    IN  IF ~player.registered
        THEN [outcome |-> "NotRegistered", result |-> Reverted, reg |-> reg]
        ELSE [outcome |-> "ok", result |-> player.lastBuilding, reg |-> reg]

getPlayerState(reg, playerAddress) ==
    LET player == reg.players[playerAddress]
    IN  IF ~player.registered
        THEN [outcome |-> "NotRegistered", result |-> Reverted, reg |-> reg]
        ELSE [outcome |-> "ok",
              result |-> <<player.gold, player.lastBuilding, player.registered>>,
              reg |-> reg]

\* mutant: the registration requirement of the getters is copied in
isPlayerRegistered_Requires(reg, playerAddress) ==
    IF ~reg.players[playerAddress].registered
    THEN [outcome |-> "NotRegistered", result |-> Reverted, reg |-> reg]
    ELSE [outcome |-> "ok", result |-> TRUE, reg |-> reg]

isPlayerRegistered(reg, playerAddress) ==
    [outcome |-> "ok", result |-> reg.players[playerAddress].registered, reg |-> reg]

getBuildingPricesCall(reg) ==
    [outcome |-> "ok", result |-> getBuildingPrices, reg |-> reg]

(* --------------------------- state machine ----------------------------- *)
Registry == [players |-> players, acl |-> acl, events |-> events]

InitRegistry ==
    [players |-> [p \in Identities |-> PlayerData],
     acl     |-> [p \in Identities |-> NoGrants],
     events  |-> << >>]

\* the observation of the most recent call: its inputs, its outcome, and
\* the sender's record and the notification log it was applied to
NoCall ==
    [op |-> "none", sender |-> 0, id |-> asEuint32(0), proofValid |-> FALSE,
     outcome |-> "none", before |-> PlayerData, eventsBefore |-> << >>]

Call(op, sender, id, proofValid, outcome, reg) ==
    [op |-> op, sender |-> sender, id |-> id, proofValid |-> proofValid,
     outcome |-> outcome, before |-> reg.players[sender],
     eventsBefore |-> reg.events]

\* the inputs of constructBuilding: every (ciphertext, proof) pair that
\* validates, and one pair that does not (it is rejected before its
\* ciphertext is read, so its plaintext plays no role)
ConstructInputs ==
    {[id |-> i, proofValid |-> TRUE] : i \in RequestedIds}
        \cup {[id |-> asEuint32(0), proofValid |-> FALSE]}

\* the state of the GameApp component before any interaction: no wallet
\* connected, the game address not configured, nothing fetched, nothing
\* decrypted, no handler in flight (an absent value is the empty set)
ZERO_ADDRESS == 0

NoWallet == 0

InitApp ==
    [walletAddress |-> NoWallet, gameAddress |-> ZERO_ADDRESS,
     playerState |-> {}, decryptedState |-> {},
     decrypting |-> {}, pendingBuild |-> {}]

\* no second execution is run alongside
NoTwin == << >>

Init ==
    /\ players = InitRegistry.players
    /\ acl = InitRegistry.acl
    /\ events = InitRegistry.events
    /\ last = NoCall
    /\ twin = NoTwin
    /\ app = InitApp

\* a call that would append a notification is only taken below the bound
Commit(r, cap) ==
    /\ r.outcome = "ok" => Len(r.reg.events) <= cap
    /\ players' = r.reg.players
    /\ acl' = r.reg.acl
    /\ events' = r.reg.events

JoinGame(sender) ==
    LET r == joinGameStep(Registry, sender)
    IN  /\ Commit(r, MaxEvents)
        /\ last' = Call("joinGame", sender, asEuint32(0), FALSE, r.outcome, Registry)
        /\ UNCHANGED <<twin, app>>

ConstructBuilding(sender, requestedId, proofValid) ==
    LET r == constructBuildingStep(Registry, sender, requestedId, proofValid)
    IN  /\ Commit(r, MaxEvents)
        /\ last' = Call("constructBuilding", sender, requestedId, proofValid,
                        r.outcome, Registry)
        /\ UNCHANGED <<twin, app>>

Next ==
    \/ \E sender \in Identities : JoinGame(sender)
    \/ \E sender \in Identities, input \in ConstructInputs :
          ConstructBuilding(sender, input.id, input.proofValid)

Spec == Init /\ [][Next]_vars

(* ---------------- two executions of the same call sequence ------------- *)
\* The second execution receives the same calls by the same senders with
\* the same proof validity, but its own requested building ids.  It keeps
\* its registry and the outcome of its most recent call.
InitTwin == [reg |-> InitRegistry, outcome |-> "none"]

\* ids of the paired executions: the dearest building (applied while the
\* gold lasts, rejected afterwards) and an id outside the catalog
PairIds == {asEuint32(4), asEuint32(MaxId)}

PairInputs ==
    {[id |-> i, twinId |-> j, proofValid |-> TRUE] : i \in PairIds, j \in PairIds}
        \cup {[id |-> asEuint32(0), twinId |-> asEuint32(0), proofValid |-> FALSE]}

InitPair ==
    /\ players = InitRegistry.players
    /\ acl = InitRegistry.acl
    /\ events = InitRegistry.events
    /\ last = NoCall
    /\ twin = InitTwin
    /\ app = InitApp

PairJoinGame(sender) ==
    LET r == joinGameStep(Registry, sender)
        t == joinGameStep(twin.reg, sender)
    IN  /\ Commit(r, MaxPairEvents)
        /\ last' = Call("joinGame", sender, asEuint32(0), FALSE, r.outcome, Registry)
        /\ twin' = [reg |-> t.reg, outcome |-> t.outcome]
        /\ UNCHANGED app

PairConstructBuilding(sender, requestedId, twinId, proofValid) ==
    LET r == constructBuildingStep(Registry, sender, requestedId, proofValid)
        t == constructBuildingStep(twin.reg, sender, twinId, proofValid)
    IN  /\ Commit(r, MaxPairEvents)
        /\ last' = Call("constructBuilding", sender, requestedId, proofValid,
                        r.outcome, Registry)
        /\ twin' = [reg |-> t.reg, outcome |-> t.outcome]
        /\ UNCHANGED app

NextPair ==
    \/ \E sender \in Identities : PairJoinGame(sender)
    \/ \E sender \in Identities, input \in PairInputs :
          PairConstructBuilding(sender, input.id, input.twinId, input.proofValid)

SpecPair == InitPair /\ [][NextPair]_vars

(* --------------------- calls together with view calls ----------------- *)
\* the observation of a view call: its argument, its outcome, the value it
\* returned and the registry it was applied to
ReadCall(op, target, r, reg) ==
    [op |-> op, target |-> target, outcome |-> r.outcome, result |-> r.result,
     regBefore |-> reg]

ReadOps ==
    {"getPlayerGold", "getPlayerLastBuilding", "getPlayerState",
     "isPlayerRegistered", "getBuildingPrices"}

View(op, target, r) ==
    /\ players' = r.reg.players
    /\ acl' = r.reg.acl
    /\ events' = r.reg.events
    /\ last' = ReadCall(op, target, r, Registry)
    /\ UNCHANGED <<twin, app>>

GetPlayerGold(playerAddress) ==
    View("getPlayerGold", playerAddress, getPlayerGold(Registry, playerAddress))

GetPlayerLastBuilding(playerAddress) ==
    View("getPlayerLastBuilding", playerAddress,
         getPlayerLastBuilding(Registry, playerAddress))

GetPlayerState(playerAddress) ==
    View("getPlayerState", playerAddress, getPlayerState(Registry, playerAddress))

IsPlayerRegistered(playerAddress) ==
    View("isPlayerRegistered", playerAddress, isPlayerRegistered(Registry, playerAddress))

GetBuildingPrices ==
    View("getBuildingPrices", 0, getBuildingPricesCall(Registry))

ReadsJoinGame(sender) ==
    LET r == joinGameStep(Registry, sender)
    IN  /\ Commit(r, MaxReadEvents)
        /\ last' = Call("joinGame", sender, asEuint32(0), FALSE, r.outcome, Registry)
        /\ UNCHANGED <<twin, app>>

ReadsConstructBuilding(sender, requestedId, proofValid) ==
    LET r == constructBuildingStep(Registry, sender, requestedId, proofValid)
    IN  /\ Commit(r, MaxReadEvents)
        /\ last' = Call("constructBuilding", sender, requestedId, proofValid,
                        r.outcome, Registry)
        /\ UNCHANGED <<twin, app>>

NextReads ==
    \/ \E sender \in Identities : ReadsJoinGame(sender)
    \/ \E sender \in Identities, input \in ConstructInputs :
          ReadsConstructBuilding(sender, input.id, input.proofValid)
    \/ \E playerAddress \in Identities : GetPlayerGold(playerAddress)
    \/ \E playerAddress \in Identities : GetPlayerLastBuilding(playerAddress)
    \/ \E playerAddress \in Identities : GetPlayerState(playerAddress)
    \/ \E playerAddress \in Identities : IsPlayerRegistered(playerAddress)
    \/ GetBuildingPrices

SpecReads == Init /\ [][NextReads]_vars

(* ------------------ two calls executed in both orders ------------------ *)
\* Every step takes two calls by distinct senders a < b (the comparison of
\* the two orders is symmetric in the senders).  The registry executes a's
\* call and then b's; the twin records the same two calls executed in the
\* other order from the same registry.
\* ids of the swapped calls: the dearest building and an id outside the
\* catalog
SwapIds == {asEuint32(4), asEuint32(MaxId)}

SwapCalls ==
    {[op |-> "joinGame", id |-> asEuint32(0), proofValid |-> FALSE]}
        \cup {[op |-> "constructBuilding", id |-> i, proofValid |-> TRUE] : i \in SwapIds}
        \cup {[op |-> "constructBuilding", id |-> asEuint32(0), proofValid |-> FALSE]}

callStep(reg, sender, call) ==
    IF call.op = "joinGame"
    THEN joinGameStep(reg, sender)
    ELSE constructBuildingStep(reg, sender, call.id, call.proofValid)

TwoCalls(a, callA, b, callB) ==
    LET ra  == callStep(Registry, a, callA)
        rab == callStep(ra.reg, b, callB)
        rb  == callStep(Registry, b, callB)
        rba == callStep(rb.reg, a, callA)
    IN  /\ a < b
        /\ Len(rab.reg.events) <= MaxSwapEvents
        /\ players' = rab.reg.players
        /\ acl' = rab.reg.acl
        /\ events' = rab.reg.events
        /\ last' = [op |-> "twoCalls",
                    first  |-> Call(callA.op, a, callA.id, callA.proofValid,
                                    ra.outcome, Registry),
                    second |-> Call(callB.op, b, callB.id, callB.proofValid,
                                    rab.outcome, ra.reg)]
        /\ twin' = [reg |-> rba.reg,
                    outcome |-> [first |-> rba.outcome, second |-> rb.outcome]]
        /\ UNCHANGED app

NextSwap ==
    \E a \in Identities, b \in Identities, callA \in SwapCalls, callB \in SwapCalls :
        TwoCalls(a, callA, b, callB)

SpecSwap == InitPair /\ [][NextSwap]_vars

(* --------------------- the calls of a single player -------------------- *)
\* One identity makes every call, so that long call sequences are covered.
\* The observation of a call also keeps the call made before it and the
\* number of constructBuilding calls so far that changed the sender's gold
\* or lastBuilding.
Solo == 1

PreviousCall(call) ==
    [op |-> call.op, id |-> call.id, outcome |-> call.outcome, before |-> call.before]

NoSoloCall ==
    [op |-> "none", sender |-> Solo, id |-> asEuint32(0), proofValid |-> FALSE,
     outcome |-> "none", before |-> PlayerData,
     previous |-> PreviousCall(NoCall), changes |-> 0]

SoloCall(op, id, proofValid, r) ==
    LET before  == players[Solo]
        after   == r.reg.players[Solo]
        changed == /\ op = "constructBuilding"
                   /\ <<after.gold, after.lastBuilding>>
                          # <<before.gold, before.lastBuilding>>
    IN  [op |-> op, sender |-> Solo, id |-> id, proofValid |-> proofValid,
         outcome |-> r.outcome, before |-> before,
         previous |-> PreviousCall(last),
         changes |-> last.changes + (IF changed THEN 1 ELSE 0)]

InitSolo ==
    /\ players = InitRegistry.players
    /\ acl = InitRegistry.acl
    /\ events = InitRegistry.events
    /\ last = NoSoloCall
    /\ twin = NoTwin
    /\ app = InitApp

SoloJoinGame ==
    LET r == joinGameStep(Registry, Solo)
    IN  /\ Commit(r, MaxSoloEvents)
        /\ last' = SoloCall("joinGame", asEuint32(0), FALSE, r)
        /\ UNCHANGED <<twin, app>>

SoloConstructBuilding(requestedId, proofValid) ==
    LET r == constructBuildingStep(Registry, Solo, requestedId, proofValid)
    IN  /\ Commit(r, MaxSoloEvents)
        /\ last' = SoloCall("constructBuilding", requestedId, proofValid, r)
        /\ UNCHANGED <<twin, app>>

NextSolo ==
    \/ SoloJoinGame
    \/ \E input \in ConstructInputs :
          SoloConstructBuilding(input.id, input.proofValid)

SpecSolo == InitSolo /\ [][NextSolo]_vars

(* ------------------- the cost lookup as a pure function ---------------- *)
\* the ids the lookup is applied to: the low limbs 0 .. MaxResolveLo and
\* 2^16 - 1, under the high limbs 0, 1 and 2^16 - 1
ResolveIds ==
    {[hi |-> h, lo |-> l] : h \in {0, 1, Limb - 1},
                            l \in (0 .. MaxResolveLo) \cup {Limb - 1}}

\* the four equality tests: isBarracks, isFarm, isFactory, isWall
matchFlags(buildingId) ==
    <<FHE_eq(buildingId, asEuint32(1)), FHE_eq(buildingId, asEuint32(2)),
      FHE_eq(buildingId, asEuint32(3)), FHE_eq(buildingId, asEuint32(4))>>

\* the costs of the four select steps, in the order of the source
selectCosts == <<BARRACKS_COST, FARM_COST, FACTORY_COST, WALL_COST>>

\* the orders in which the four select steps can be taken
Orders == {o \in [1 .. 4 -> 1 .. 4] : \A i, j \in 1 .. 4 : o[i] = o[j] => i = j}

\* selectedCost after the first n select steps taken in the given order
RECURSIVE selectedCost(_, _, _)
selectedCost(buildingId, order, n) ==
    IF n = 0
    THEN asEuint32(0)
    ELSE FHE_select(matchFlags(buildingId)[order[n]],
                    asEuint32(selectCosts[order[n]]),
                    selectedCost(buildingId, order, n - 1))

\* the inputs of one evaluation: a requested id and an order of the steps
ResolveInput(buildingId, order) ==
    [op |-> "resolveInput", id |-> buildingId, order |-> order]

InitResolve ==
    /\ players = InitRegistry.players
    /\ acl = InitRegistry.acl
    /\ events = InitRegistry.events
    /\ last \in {ResolveInput(buildingId, order) :
                    buildingId \in ResolveIds, order \in Orders}
    /\ twin = NoTwin
    /\ app = InitApp

\* one evaluation of the lookup: the id, what _resolveBuildingCost returns,
\* its match flags, and the cost selected when the steps are taken in order
ResolveBuildingCost ==
    /\ last.op = "resolveInput"
    /\ last' = [op |-> "resolveBuildingCost", id |-> last.id,
                resolved |-> resolveBuildingCost(last.id),
                flags |-> matchFlags(last.id),
                order |-> last.order,
                folded |-> selectedCost(last.id, last.order, 4)]
    /\ UNCHANGED <<players, acl, events, twin, app>>

NextResolve == ResolveBuildingCost

SpecResolve == InitResolve /\ [][NextResolve]_vars

(* ---------------------- the GameApp frontend --------------------------- *)
\* The component holds the connected wallet, the game address, the
\* ciphertexts last fetched by the getPlayerState query, the decrypted
\* state it shows, and the asynchronous handlers in flight.  The registry
\* is the contract deployed at the address Deployed.
Deployed == 1

GameAddresses == {ZERO_ADDRESS, Deployed}

\* the buildings offered by the construction tab
BUILDINGS == 1 .. 4

\* Number(bigint) of a decrypted 32-bit value
Number(x) == x.hi * Limb + x.lo

\* what the getPlayerState query holds once it has run for a wallet
fetchPlayerState(walletAddress) ==
    LET r == getPlayerState(Registry, walletAddress)
    IN  IF r.outcome = "ok"
        THEN {[gold |-> r.result[1], lastBuilding |-> r.result[2]]}
        ELSE {}

hasConfiguredContract == app.gameAddress # ZERO_ADDRESS

\* applyContractAddress: the address typed by the user becomes the game
\* address and the decrypted state is cleared; a new address is a new query
ApplyContractAddress(customAddress) ==
    /\ app' = [app EXCEPT
                  !.gameAddress = customAddress,
                  !.decryptedState = {},
                  !.playerState = IF customAddress = app.gameAddress
                                  THEN app.playerState ELSE {}]
    /\ UNCHANGED <<players, acl, events, last, twin>>

\* the wallet connects, disconnects or switches account: the effect on
\* [walletAddress, gameAddress] clears the decrypted state, and the queries
\* of the new wallet hold no data yet
WalletChange(walletAddress) ==
    /\ walletAddress # app.walletAddress
    /\ app' = [app EXCEPT
                  !.walletAddress = walletAddress,
                  !.decryptedState = {},
                  !.playerState = {}]
    /\ UNCHANGED <<players, acl, events, last, twin>>

\* the getPlayerState query of the current wallet completes
FetchPlayerState ==
    /\ app.walletAddress # NoWallet /\ hasConfiguredContract
    /\ players[app.walletAddress].registered
    /\ app' = [app EXCEPT !.playerState = fetchPlayerState(app.walletAddress)]
    /\ UNCHANGED <<players, acl, events, last, twin>>

\* handleJoinGame: the joinGame transaction of the current wallet is mined
\* and the two queries are fetched again; a revert only shows an error
HandleJoinGame ==
    LET r == joinGameStep(Registry, app.walletAddress)
    IN  /\ app.walletAddress # NoWallet /\ hasConfiguredContract
        /\ Commit(r, MaxAppEvents)
        /\ app' = IF r.outcome = "ok"
                  THEN [app EXCEPT !.playerState =
                           {[gold |-> r.reg.players[app.walletAddress].gold,
                             lastBuilding |->
                                 r.reg.players[app.walletAddress].lastBuilding]}]
                  ELSE app
        /\ UNCHANGED <<last, twin>>

\* handleBuild up to the submission of the transaction: the button is
\* enabled for a registered wallet while no construction is pending
HandleBuild(buildingId) ==
    /\ app.walletAddress # NoWallet /\ hasConfiguredContract
    /\ players[app.walletAddress].registered
    /\ app.pendingBuild = {}
    /\ app' = [app EXCEPT !.pendingBuild =
                  {[walletAddress |-> app.walletAddress, buildingId |-> buildingId,
                    refetching |-> FALSE]}]
    /\ UNCHANGED <<players, acl, events, last, twin>>

\* the constructBuilding transaction is mined and tx.wait() returns: the
\* decrypted state is cleared and the refetch starts; a revert ends the
\* handler
BuildConfirmed ==
    \E b \in app.pendingBuild :
        LET r == constructBuildingStep(Registry, b.walletAddress,
                                       asEuint32(b.buildingId), TRUE)
        IN  /\ ~b.refetching
            /\ Commit(r, MaxAppEvents)
            /\ app' = IF r.outcome = "ok"
                      THEN [app EXCEPT !.decryptedState = {},
                                       !.pendingBuild = {[b EXCEPT !.refetching = TRUE]}]
                      ELSE [app EXCEPT !.pendingBuild = {}]
            /\ UNCHANGED <<last, twin>>

\* refetchPlayerState() returns and handleBuild ends
BuildRefetched ==
    \E b \in app.pendingBuild :
        /\ b.refetching
        /\ app' = [app EXCEPT
                      !.playerState = IF app.walletAddress = NoWallet
                                      THEN {}
                                      ELSE fetchPlayerState(app.walletAddress),
                      !.pendingBuild = {}]
        /\ UNCHANGED <<players, acl, events, last, twin>>

\* handleDecrypt up to the request: the handles shown at the click are
\* captured in handleContractPairs
HandleDecrypt ==
    /\ app.walletAddress # NoWallet /\ hasConfiguredContract
    /\ app.playerState # {}
    /\ app.decrypting = {}
    /\ app' = [app EXCEPT !.decrypting =
                  {[walletAddress |-> app.walletAddress, handles |-> s] :
                       s \in app.playerState}]
    /\ UNCHANGED <<players, acl, events, last, twin>>

\* userDecrypt returns the plaintexts of the captured handles to the wallet
\* that holds decryption rights, and they become the decrypted state
DecryptResolved ==
    \E d \in app.decrypting :
        /\ d.walletAddress \in acl[d.walletAddress].gold.accounts
        /\ d.walletAddress \in acl[d.walletAddress].lastBuilding.accounts
        /\ app' = [app EXCEPT
                      !.decryptedState =
                          {[gold |-> Number(d.handles.gold),
                            buildingId |-> Number(d.handles.lastBuilding)]},
                      !.decrypting = {}]
        /\ UNCHANGED <<players, acl, events, last, twin>>

\* the signature is refused or the relayer fails: only an error is shown
DecryptFailed ==
    /\ app.decrypting # {}
    /\ app' = [app EXCEPT !.decrypting = {}]
    /\ UNCHANGED <<players, acl, events, last, twin>>

clearDecryptedState ==
    /\ app.decryptedState # {}
    /\ app' = [app EXCEPT !.decryptedState = {}]
    /\ UNCHANGED <<players, acl, events, last, twin>>

NextApp ==
    \/ \E customAddress \in GameAddresses : ApplyContractAddress(customAddress)
    \/ \E walletAddress \in Identities \cup {NoWallet} : WalletChange(walletAddress)
    \/ FetchPlayerState
    \/ HandleJoinGame
    \/ \E buildingId \in BUILDINGS : HandleBuild(buildingId)
    \/ BuildConfirmed
    \/ BuildRefetched
    \/ HandleDecrypt
    \/ DecryptResolved
    \/ DecryptFailed
    \/ clearDecryptedState

SpecApp == Init /\ [][NextApp]_vars

(* ------------------------- reference arithmetic ------------------------ *)
\* plaintext reading of the two-limb words, for amounts n below 2^16
IsPlain(x, n) == x.hi = 0 /\ x.lo = n

AtLeast(x, n) == x.hi > 0 \/ x.lo >= n

Minus(x, n) ==
    IF x.lo >= n THEN [hi |-> x.hi, lo |-> x.lo - n]
    ELSE [hi |-> x.hi - 1, lo |-> x.lo + Limb - n]

AtMost(x, y) == x.hi < y.hi \/ (x.hi = y.hi /\ x.lo <= y.lo)

InCatalog(id) == id.hi = 0 /\ id.lo \in 1 .. 4

\* the catalog of the game rules: 1 -> 100, 2 -> 200, 3 -> 300, 4 -> 400
CatalogCost(id) == 100 * id.lo

Constructed == last.op = "constructBuilding" /\ last.outcome = "ok"

Untouched ==
    /\ players[last.sender].gold = last.before.gold
    /\ players[last.sender].lastBuilding = last.before.lastBuilding

JoinedBefore ==
    \E k \in 1 .. Len(last.eventsBefore) :
        last.eventsBefore[k] = PlayerJoined(last.sender)

(* -------------------------------- claims ------------------------------- *)
\* C1: a successful constructBuilding(i) with i in 1..4 and catalog cost
\* c(i) <= gold (inclusive) leaves gold - c(i) and lastBuilding = i.
C1_AffordableConstruction ==
    (Constructed /\ InCatalog(last.id)
        /\ AtLeast(last.before.gold, CatalogCost(last.id)))
    => /\ players[last.sender].gold = Minus(last.before.gold, CatalogCost(last.id))
       /\ players[last.sender].lastBuilding = last.id

\* the inclusive boundary: gold equal to the cost is spent down to 0
C1_Witness ==
    /\ Constructed /\ InCatalog(last.id)
    /\ IsPlain(last.before.gold, CatalogCost(last.id))
    /\ IsPlain(players[last.sender].gold, 0)
    /\ players[last.sender].lastBuilding = last.id

\* C2: a constructBuilding whose requested id is outside 1..4 leaves gold
\* and lastBuilding unchanged.
C2_UnknownIdIsNoOp ==
    (Constructed /\ ~InCatalog(last.id)) => Untouched

C2_Witness ==
    /\ Constructed /\ last.id = MaxUint32
    /\ ~IsPlain(last.before.lastBuilding, 0)
    /\ Untouched

\* C3: a constructBuilding(i) with i in 1..4 and gold < c(i) leaves gold
\* and lastBuilding unchanged.
C3_UnaffordableIsNoOp ==
    (Constructed /\ InCatalog(last.id)
        /\ ~AtLeast(last.before.gold, CatalogCost(last.id)))
    => Untouched

C3_Witness ==
    /\ Constructed /\ InCatalog(last.id)
    /\ ~AtLeast(last.before.gold, CatalogCost(last.id))
    /\ Untouched

\* C4: no call ever increases the gold of a registered player.
C4_MonotonicGold ==
    [][\A p \in Identities :
          players[p].registered => AtMost(players'[p].gold, players[p].gold)]_vars

C4_Witness ==
    /\ Constructed
    /\ AtMost(players[last.sender].gold, last.before.gold)
    /\ players[last.sender].gold # last.before.gold

\* C5: a joinGame after the sender's first successful joinGame fails with
\* AlreadyRegistered and leaves the sender's gold and lastBuilding as they
\* were.
C5_SecondJoinFails ==
    (last.op = "joinGame" /\ JoinedBefore)
    => /\ last.outcome = "AlreadyRegistered"
       /\ Untouched

\* a failing join after some gold was spent
C5_Witness ==
    /\ last.op = "joinGame" /\ JoinedBefore
    /\ last.outcome = "AlreadyRegistered"
    /\ ~IsPlain(players[last.sender].gold, 1000)
    /\ ~IsPlain(players[last.sender].lastBuilding, 0)

\* C6: right after a successful joinGame the sender has gold 1000,
\* lastBuilding 0 and is registered.
C6_StartingAllocation ==
    (last.op = "joinGame" /\ last.outcome = "ok")
    => /\ IsPlain(players[last.sender].gold, 1000)
       /\ IsPlain(players[last.sender].lastBuilding, 0)
       /\ players[last.sender].registered

C6_Witness ==
    /\ last.op = "joinGame" /\ last.outcome = "ok"
    /\ ~last.before.registered
    /\ players[last.sender].registered
    /\ IsPlain(players[last.sender].gold, 1000)

\* C7: constructBuilding by a sender that never joined fails with
\* NotRegistered, creates no record and emits no notification.
C7_ConstructBeforeJoin ==
    (last.op = "constructBuilding" /\ ~JoinedBefore)
    => /\ last.outcome = "NotRegistered"
       /\ ~players[last.sender].registered
       /\ players[last.sender] = PlayerData
       /\ events = last.eventsBefore

\* the scenario of the test: a fresh sender, id 1, a valid proof
C7_Witness ==
    /\ last.op = "constructBuilding" /\ ~JoinedBefore
    /\ last.proofValid /\ IsPlain(last.id, 1)
    /\ last.outcome = "NotRegistered"
    /\ ~players[last.sender].registered

\* C8: constructBuilding by a registered sender with a valid proof succeeds
\* for every requested id and every gold balance.
C8_SilentRejection ==
    (last.op = "constructBuilding" /\ last.before.registered /\ last.proofValid)
    => last.outcome = "ok"

\* success with the dearest building requested on a balance of 200
C8_Witness ==
    /\ last.op = "constructBuilding" /\ last.before.registered /\ last.proofValid
    /\ IsPlain(last.id, 4) /\ IsPlain(last.before.gold, 200)
    /\ last.outcome = "ok"

\* C9: two executions of the same calls that differ only in the requested
\* building ids agree on every plaintext observable: the outcome of each
\* call, the notification log, the registered flags and the price list.
PlainView(reg, outcome) ==
    [outcome    |-> outcome,
     events     |-> reg.events,
     registered |-> [p \in Identities |-> reg.players[p].registered],
     prices     |-> getBuildingPrices]

C9_Oblivious ==
    PlainView(Registry, last.outcome) = PlainView(twin.reg, twin.outcome)

\* one execution applied a construction that the other one rejected
C9_Witness ==
    /\ Constructed /\ twin.outcome = "ok"
    /\ ~Untouched
    /\ twin.reg.players[last.sender].gold = last.before.gold
    /\ twin.reg.players[last.sender].gold # players[last.sender].gold

\* C10: every successful constructBuilding appends exactly one
\* BuildingAttempted(sender), also when the attempt is not applied.
C10_AlwaysNotifies ==
    Constructed => events = Append(last.eventsBefore, BuildingAttempted(last.sender))

C10_Witness ==
    /\ Constructed /\ Untouched
    /\ Len(events) = Len(last.eventsBefore) + 1
    /\ events[Len(events)] = BuildingAttempted(last.sender)


C12_FailureChangesNothing ==
    [][last'.outcome \in {"AlreadyRegistered", "NotRegistered", "InvalidProof"}
          => UNCHANGED <<players, acl, events>>]_vars

\* a rejected proof of a registered sender whose record was rewritten before
C12_Witness ==
    /\ last.op = "constructBuilding" /\ last.outcome = "InvalidProof"
    /\ last.before.registered
    /\ ~IsPlain(last.before.gold, 1000)
    /\ players[last.sender] = last.before
    /\ events = last.eventsBefore

\* C13: the registered flag is set by a successful joinGame of that
\* identity only, and once set it is never cleared.
C13_RegisteredOnce ==
    [][\A p \in Identities :
          /\ players[p].registered => players'[p].registered
          /\ (~players[p].registered /\ players'[p].registered)
                => (last'.op = "joinGame" /\ last'.sender = p /\ last'.outcome = "ok")]_vars

\* still registered after a construction and a refused second join
C13_Witness ==
    /\ last.op = "joinGame" /\ last.outcome = "AlreadyRegistered"
    /\ \E k \in 1 .. Len(events) : events[k] = BuildingAttempted(last.sender)
    /\ players[last.sender].registered

\* C14 as stated: in a constructBuilding call the decrypted gold changes
\* exactly when the decrypted lastBuilding changes.
C14_Original ==
    Constructed =>
        ((players[last.sender].gold # last.before.gold)
            <=> (players[last.sender].lastBuilding # last.before.lastBuilding))

\* C14 (amended): lastBuilding never changes unless gold changes; when
\* gold changes lastBuilding is the requested id, so it keeps its value
\* only if the requested id is the building recorded before.
C14_ChangeTogether ==
    Constructed =>
        /\ (players[last.sender].lastBuilding # last.before.lastBuilding)
              => (players[last.sender].gold # last.before.gold)
        /\ (players[last.sender].gold # last.before.gold)
              => players[last.sender].lastBuilding = last.id

\* the same building is constructed again: gold drops, lastBuilding stays
C14_Witness ==
    /\ Constructed
    /\ players[last.sender].gold # last.before.gold
    /\ players[last.sender].lastBuilding = last.before.lastBuilding
    /\ last.id = last.before.lastBuilding

HasJoined(x) == \E k \in 1 .. Len(events) : events[k] = PlayerJoined(x)

\* C15: getPlayerGold, getPlayerLastBuilding and getPlayerState fail with
\* NotRegistered exactly for a target that never joined; otherwise they
\* return the gold and lastBuilding held in the target's record, and the
\* registered component of getPlayerState is true.
C15_Getters ==
    last.op \in {"getPlayerGold", "getPlayerLastBuilding", "getPlayerState"} =>
        /\ last.outcome = "NotRegistered" <=> ~HasJoined(last.target)
        /\ HasJoined(last.target) =>
              /\ last.outcome = "ok"
              /\ last.op = "getPlayerGold" => last.result = players[last.target].gold
              /\ last.op = "getPlayerLastBuilding"
                    => last.result = players[last.target].lastBuilding
              /\ last.op = "getPlayerState"
                    => last.result = <<players[last.target].gold,
                                       players[last.target].lastBuilding, TRUE>>

\* the building getter answers after an applied construction
C15_Witness ==
    /\ last.op = "getPlayerLastBuilding" /\ last.outcome = "ok"
    /\ InCatalog(last.result)
    /\ ~IsPlain(players[last.target].gold, 1000)

\* C16: isPlayerRegistered never fails and returns true exactly for an
\* identity that completed a successful joinGame.
C16_IsRegistered ==
    last.op = "isPlayerRegistered" =>
        /\ last.outcome = "ok"
        /\ last.result = HasJoined(last.target)

\* the answer for an identity without a record, next to a registered one
C16_Witness ==
    /\ last.op = "isPlayerRegistered" /\ last.outcome = "ok"
    /\ last.result = FALSE
    /\ \E q \in Identities : players[q].registered

\* C17: getBuildingPrices never fails and returns <<100, 200, 300, 400>>,
\* and an applied constructBuilding with id k deducts the k-th price.
C17_Prices ==
    /\ last.op = "getBuildingPrices"
          => (last.outcome = "ok" /\ last.result = <<100, 200, 300, 400>>)
    /\ (Constructed /\ InCatalog(last.id) /\ ~Untouched)
          => players[last.sender].gold
                 = Minus(last.before.gold, getBuildingPrices[last.id.lo])

\* the price list read while a player holds 1000 minus the listed price
\* of its building
C17_Witness ==
    /\ last.op = "getBuildingPrices" /\ last.outcome = "ok"
    /\ \E p \in Identities :
          /\ InCatalog(players[p].lastBuilding)
          /\ IsPlain(players[p].gold, 1000 - last.result[players[p].lastBuilding.lo])

\* C18: the view calls leave every record, every grant and the
\* notification log unchanged, whether they succeed or fail.
C18_ViewsDoNotMutate ==
    [][last'.op \in ReadOps => UNCHANGED <<players, acl, events>>]_vars

\* a successful getter on a registry that already holds two notifications
C18_Witness ==
    /\ last.op = "getPlayerGold" /\ last.outcome = "ok"
    /\ Len(events) >= 2
    /\ Registry = last.regBefore


\* C20: two calls by distinct identities give the same outcomes and the
\* same records (gold, lastBuilding, registered of every player) in either
\* order.
C20_Commute ==
    last.op = "twoCalls" =>
        /\ last.first.outcome = twin.outcome.first
        /\ last.second.outcome = twin.outcome.second
        /\ players = twin.reg.players

\* two applied constructions by two players, logged in different orders
C20_Witness ==
    /\ last.op = "twoCalls"
    /\ last.first.op = "constructBuilding" /\ last.first.outcome = "ok"
    /\ last.second.op = "constructBuilding" /\ last.second.outcome = "ok"
    /\ players[last.first.sender].gold # last.first.before.gold
    /\ players[last.second.sender].gold # last.second.before.gold
    /\ events # twin.reg.events
    /\ players = twin.reg.players


\* C21: of two consecutive successful constructBuilding calls of one player
\* with the same id i in 1..4, starting from gold g, the second changes the
\* gold exactly when g >= 2 * c(i); when c(i) <= g < 2 * c(i) the first
\* leaves g - c(i) and the second leaves gold and lastBuilding unchanged.
C21_SecondAppliedIff ==
    (/\ Constructed
     /\ last.previous.op = "constructBuilding" /\ last.previous.outcome = "ok"
     /\ last.previous.id = last.id /\ InCatalog(last.id))
    => /\ (players[last.sender].gold # last.before.gold)
              <=> AtLeast(last.previous.before.gold, 2 * CatalogCost(last.id))
       /\ (/\ AtLeast(last.previous.before.gold, CatalogCost(last.id))
           /\ ~AtLeast(last.previous.before.gold, 2 * CatalogCost(last.id)))
          => /\ last.before.gold
                   = Minus(last.previous.before.gold, CatalogCost(last.id))
             /\ Untouched

\* the example of the claim: two Walls requested on a balance of 600
C21_Witness ==
    /\ Constructed /\ IsPlain(last.id, 4)
    /\ last.previous.op = "constructBuilding" /\ last.previous.outcome = "ok"
    /\ last.previous.id = last.id
    /\ IsPlain(last.previous.before.gold, 600)
    /\ IsPlain(last.before.gold, 200)
    /\ IsPlain(players[last.sender].gold, 200)

\* C22: every registered player's lastBuilding decrypts to one of 0, 1, 2,
\* 3, 4, whatever 32-bit ids were requested.
C22_BuildingInRange ==
    \A p \in Identities :
        players[p].registered =>
            (players[p].lastBuilding.hi = 0 /\ players[p].lastBuilding.lo \in 0 .. 4)

\* the largest 32-bit id was requested of a player holding a Wall
C22_Witness ==
    /\ Constructed /\ last.id = MaxUint32
    /\ IsPlain(last.before.lastBuilding, 4)
    /\ IsPlain(players[last.sender].lastBuilding, 4)

\* C23: _resolveBuildingCost returns (100, true) for id 1, (200, true) for
\* 2, (300, true) for 3, (400, true) for 4 and (0, false) for every other
\* id, and at most one of its four match flags is true.
C23_Lookup ==
    last.op = "resolveBuildingCost" =>
        /\ last.resolved =
              CASE last.id = [hi |-> 0, lo |-> 1]
                      -> [cost |-> [hi |-> 0, lo |-> 100], isValid |-> TRUE]
                [] last.id = [hi |-> 0, lo |-> 2]
                      -> [cost |-> [hi |-> 0, lo |-> 200], isValid |-> TRUE]
                [] last.id = [hi |-> 0, lo |-> 3]
                      -> [cost |-> [hi |-> 0, lo |-> 300], isValid |-> TRUE]
                [] last.id = [hi |-> 0, lo |-> 4]
                      -> [cost |-> [hi |-> 0, lo |-> 400], isValid |-> TRUE]
                [] OTHER
                      -> [cost |-> [hi |-> 0, lo |-> 0], isValid |-> FALSE]
        /\ Cardinality({k \in 1 .. 4 : last.flags[k]}) <= 1

\* the id 2^16 + 1, whose low 16 bits are those of Barracks
C23_Witness ==
    /\ last.op = "resolveBuildingCost"
    /\ last.id = [hi |-> 1, lo |-> 1]
    /\ ~last.resolved.isValid
    /\ IsPlain(last.resolved.cost, 0)

\* C24: for every id, taking the four select steps in any order selects
\* the cost that _resolveBuildingCost returns with its fixed order.
C24_OrderIndependent ==
    last.op = "resolveBuildingCost" => last.folded = last.resolved.cost

\* the steps taken in reverse order for the id of the Farm
C24_Witness ==
    /\ last.op = "resolveBuildingCost"
    /\ last.order = <<4, 3, 2, 1>>
    /\ IsPlain(last.id, 2)
    /\ IsPlain(last.folded, 200)

\* C25: constructBuilding by an unregistered sender fails with NotRegistered
\* whether or not its proof is valid, and InvalidProof is only the outcome
\* of a call by a registered sender.
C25_RegistrationFirst ==
    last.op = "constructBuilding" =>
        /\ ~last.before.registered => last.outcome = "NotRegistered"
        /\ last.outcome = "InvalidProof" => last.before.registered

\* an unregistered sender with an invalid proof, next to a registered player
C25_Witness ==
    /\ last.op = "constructBuilding" /\ ~last.proofValid
    /\ ~last.before.registered
    /\ last.outcome = "NotRegistered"
    /\ \E q \in Identities : players[q].registered

\* C26: the subtraction of constructBuilding never wraps: the gold after a
\* call is at most the gold before it, and every registered player's gold
\* decrypts to a value in 0..1000.
C26_NoWrap ==
    /\ Constructed => AtMost(players[last.sender].gold, last.before.gold)
    /\ \A p \in Identities :
          players[p].registered =>
              (players[p].gold.hi = 0 /\ players[p].gold.lo \in 0 .. 1000)

\* a Factory (300) requested on a balance of 200: applying it would wrap
C26_Witness ==
    /\ Constructed /\ IsPlain(last.id, 3)
    /\ IsPlain(last.before.gold, 200)
    /\ IsPlain(players[last.sender].gold, 200)

\* C27: for every registered player lastBuilding is 0 exactly when gold is
\* 1000, and a call never takes a nonzero lastBuilding back to 0.
C27_BuildingIffSpent ==
    /\ \A p \in Identities :
          players[p].registered =>
              (IsPlain(players[p].lastBuilding, 0) <=> IsPlain(players[p].gold, 1000))
    /\ ~IsPlain(last.before.lastBuilding, 0)
          => ~IsPlain(players[last.sender].lastBuilding, 0)

\* id 0 requested of a player that holds a building, next to a fresh player
C27_Witness ==
    /\ Constructed /\ IsPlain(last.id, 0)
    /\ ~IsPlain(last.before.lastBuilding, 0)
    /\ ~IsPlain(players[last.sender].lastBuilding, 0)
    /\ \E q \in Identities :
          /\ players[q].registered
          /\ IsPlain(players[q].gold, 1000)
          /\ IsPlain(players[q].lastBuilding, 0)

\* C28: at most 10 constructBuilding calls of one player change its gold or
\* lastBuilding, and a constructBuilding call made on a gold of 0 leaves
\* gold and lastBuilding unchanged, whatever id it requests.
C28_BoundedProgress ==
    /\ last.changes <= 10
    /\ (Constructed /\ IsPlain(last.before.gold, 0)) => Untouched

\* ten Barracks spent the gold; an eleventh is requested
C28_Witness ==
    /\ last.changes = 10
    /\ Constructed /\ IsPlain(last.id, 1)
    /\ IsPlain(last.before.gold, 0)
    /\ IsPlain(players[last.sender].gold, 0)
    /\ IsPlain(players[last.sender].lastBuilding, 1)

Count(log, e) == Cardinality({k \in 1 .. Len(log) : log[k] = e})

\* C29: after every step the log holds at most one PlayerJoined(p), every
\* BuildingAttempted(p) stands after PlayerJoined(p), and the number of
\* BuildingAttempted(p) grows by one exactly in a successful
\* constructBuilding call by p (so it equals the number of such calls).
C29_Log ==
    [][\A p \in Identities :
          /\ Count(events', PlayerJoined(p)) <= 1
          /\ \A k \in 1 .. Len(events') :
                events'[k] = BuildingAttempted(p)
                    => \E j \in 1 .. k - 1 : events'[j] = PlayerJoined(p)
          /\ Count(events', BuildingAttempted(p)) =
                Count(events, BuildingAttempted(p))
                    + (IF /\ last'.op = "constructBuilding"
                          /\ last'.outcome = "ok"
                          /\ last'.sender = p
                       THEN 1 ELSE 0)]_vars

\* a rejected proof after two logged attempts of the same sender
C29_Witness ==
    /\ last.op = "constructBuilding" /\ last.outcome = "InvalidProof"
    /\ Count(events, BuildingAttempted(last.sender)) = 2
    /\ Count(events, PlayerJoined(last.sender)) = 1
    /\ events[1] = PlayerJoined(last.sender)

\* C30 as stated: whenever the GameApp shows a decrypted state, it is the
\* decryption of the gold and lastBuilding ciphertexts currently fetched
\* for the current wallet and game address.
C30_DecryptedIsCurrent ==
    \A d \in app.decryptedState :
        \E s \in app.playerState :
            /\ d.gold = s.gold.hi * Limb + s.gold.lo
            /\ d.buildingId = s.lastBuilding.hi * Limb + s.lastBuilding.lo

\* a decryption requested before a Wall was constructed returns after the
\* construction was confirmed and refetched: 1000 gold and no building are
\* shown next to the ciphertexts of 600 gold and a Wall
C30_Witness ==
    /\ app.walletAddress # NoWallet
    /\ app.pendingBuild = {} /\ app.decrypting = {}
    /\ app.decryptedState = {[gold |-> 1000, buildingId |-> 0]}
    /\ \E s \in app.playerState :
          /\ IsPlain(s.gold, 600) /\ IsPlain(s.lastBuilding, 4)
          /\ s.gold = players[app.walletAddress].gold
          /\ s.lastBuilding = players[app.walletAddress].lastBuilding

====
